---- MODULE Spec2Model ----
(***************************************************************************)
(* Model of code-extractor (src/main.rs): a command line tool that parses  *)
(* a Rust source file and either lists its top-level items or prints one   *)
(* item, chosen by kind and name, as a file of its own.                    *)
(***************************************************************************)
EXTENDS Integers, Sequences, FiniteSets, TLC

\* ------------------------------------------------------------------------
\* Bounds of the model
\* ------------------------------------------------------------------------

\* The longest item list of a parsed file.
MaxItems == 2

\* ------------------------------------------------------------------------
\* Values
\* ------------------------------------------------------------------------

\* Option::None
None == "None"

\* The identifiers that occur in files and in requests.
Names == {"add", "Point"}

\* syn::Item variants the program tells apart; "Other" stands for every
\* variant that the program's matches leave to the catch-all (Impl, Mod, Use ...).
NamedVariants ==
    {"Fn", "Struct", "Enum", "Trait", "Const", "ExternCrate", "Static", "Type", "Union"}

Variants == NamedVariants \cup {"Macro", "Other"}

\* The variants of enum ExtractItem that carry a name.
ExtractCommands ==
    {"Function", "Struct", "Enum", "Trait", "Const", "ExternCrate", "Static", "Type",
     "Union", "Macro"}

Commands == {"ListItems"} \cup ExtractCommands

\* The node a syn::Item variant wraps.  ItemFn keeps its identifier in its
\* signature, ItemMacro has an optional identifier, the others a plain one.
\* body is the rest of the declaration, which the program never looks at.
Node(var, id, body) ==
    IF var = "Fn" THEN [sig |-> [ident |-> id], body |-> body]
    ELSE [ident |-> id, body |-> body]

Item(var, id, body) == [var |-> var, node |-> Node(var, id, body)]

\* (variant, identifier) of the items a parsed file can hold.
Shapes ==
    (NamedVariants \X Names) \cup ({"Macro"} \X (Names \cup {None})) \cup {<<"Other", None>>}

\* The item lists of the files read: up to MaxItems items, in source order.
\* The body of the i-th declaration is i: every declaration of a file has text
\* of its own, so two declarations of one kind and name are still two nodes.
ItemLists ==
    UNION {{[i \in 1..k |-> Item(s[i][1], s[i][2], i)] : s \in [1..k -> Shapes]} : k \in 0..MaxItems}

\* shebang and inner attributes of the parsed file.
Headers == {[shebang |-> None, attrs |-> <<>>],
            [shebang |-> "#!/usr/bin/env run", attrs |-> <<"#![no_std]">>]}

Files == {[shebang |-> h.shebang, attrs |-> h.attrs, items |-> its] : h \in Headers, its \in ItemLists}

NoFile == [shebang |-> None, attrs |-> <<>>, items |-> <<>>]

\* ------------------------------------------------------------------------
\* State
\* ------------------------------------------------------------------------

VARIABLES
    argv,     \* the command line after the file name: [word, name, help]
    opt,      \* Opt::item once parsed: [cmd, name], None before
    file,     \* the parsed file, NoFile before it is read
    found,    \* the position the reference returned by find points at, 0: none
    synth,    \* the file handed to the formatter, None if none was
    stdout,   \* what was printed, in order
    stderr,   \* error messages
    pc        \* "args", "read", "match", "done", "usage", "help", "panicked"

vars == <<argv, opt, file, found, synth, stdout, stderr, pc>>

\* ------------------------------------------------------------------------
\* Command line (clap derive on ExtractItem)
\* ------------------------------------------------------------------------

\* SubcommandName with the function sub-command named after its kind label.
SubcommandNameLabels(cmd) ==
    CASE cmd = "ListItems" -> "list"
      [] cmd = "Function" -> "fn"
      [] cmd = "Struct" -> "struct"
      [] cmd = "Enum" -> "enum"
      [] cmd = "Trait" -> "trait"
      [] cmd = "Const" -> "const"
      [] cmd = "ExternCrate" -> "extern-crate"
      [] cmd = "Static" -> "static"
      [] cmd = "Type" -> "type"
      [] cmd = "Union" -> "union"
      [] cmd = "Macro" -> "macro"

\* The name of the sub-command of a variant: the name given with
\* #[clap(name = ...)], else the variant's name in kebab case.
SubcommandName(cmd) ==
    CASE cmd = "ListItems" -> "list"
      [] cmd = "Function" -> "function"
      [] cmd = "Struct" -> "struct"
      [] cmd = "Enum" -> "enum"
      [] cmd = "Trait" -> "trait"
      [] cmd = "Const" -> "const"
      [] cmd = "ExternCrate" -> "extern-crate"
      [] cmd = "Static" -> "static"
      [] cmd = "Type" -> "type"
      [] cmd = "Union" -> "union"
      [] cmd = "Macro" -> "macro"

\* #[clap(alias = ...)]
Alias(cmd) ==
    CASE cmd = "Function" -> "f"
      [] cmd = "Struct" -> "s"
      [] cmd = "Enum" -> "e"
      [] cmd = "Trait" -> "t"
      [] cmd = "Const" -> "c"
      [] OTHER -> None

\* The doc comment of a variant, which clap shows in the help.
About(cmd) == IF cmd = "Macro" THEN "Note: output might be mangled" ELSE None

\* The variants a word of the command line selects (at most one).
Subcommands(word) == {cmd \in Commands : word = SubcommandName(cmd) \/ word = Alias(cmd)}

\* ------------------------------------------------------------------------
\* Listing
\* ------------------------------------------------------------------------

\* info with the arm of Item::Union carrying the label of Item::Struct.
infoSharedLabel(item) ==
    CASE item.var = "Fn" -> <<"fn", item.node.sig.ident>>
      [] item.var = "Struct" -> <<"struct", item.node.ident>>
      [] item.var = "Enum" -> <<"enum", item.node.ident>>
      [] item.var = "Trait" -> <<"trait", item.node.ident>>
      [] item.var = "Const" -> <<"const", item.node.ident>>
      [] item.var = "ExternCrate" -> <<"extern crate", item.node.ident>>
      [] item.var = "Static" -> <<"static", item.node.ident>>
      [] item.var = "Type" -> <<"type", item.node.ident>>
      [] item.var = "Union" -> <<"struct", item.node.ident>>
      [] item.var = "Macro" /\ item.node.ident # None -> <<"macro", item.node.ident>>
      [] OTHER -> None

\* The match of the listing loop: Some((kind, name)) or None.
info(item) ==
    CASE item.var = "Fn" -> <<"fn", item.node.sig.ident>>
      [] item.var = "Struct" -> <<"struct", item.node.ident>>
      [] item.var = "Enum" -> <<"enum", item.node.ident>>
      [] item.var = "Trait" -> <<"trait", item.node.ident>>
      [] item.var = "Const" -> <<"const", item.node.ident>>
      [] item.var = "ExternCrate" -> <<"extern crate", item.node.ident>>
      [] item.var = "Static" -> <<"static", item.node.ident>>
      [] item.var = "Type" -> <<"type", item.node.ident>>
      [] item.var = "Union" -> <<"union", item.node.ident>>
      [] item.var = "Macro" /\ item.node.ident # None -> <<"macro", item.node.ident>>
      [] OTHER -> None

\* The kind labels of the match.
KindLabels ==
    {"fn", "struct", "enum", "trait", "const", "extern crate", "static", "type", "union",
     "macro"}

\* The width of the kind column, {:>12}.
KindWidth == 12

\* println!("{:>12} {}", kind, name): the kind padded on the left to the width.
Line(kind, name) ==
    [what |-> "entry",
     pad |-> IF Len(kind) < KindWidth THEN KindWidth - Len(kind) ELSE 0,
     kind |-> kind, name |-> name]

\* A piece of plain text on an output stream.
Text(s) == [what |-> "text", text |-> s]

\* println!("Listing items:")
Header == Text("Listing items:")

\* PrintItems with the lines in the reverse of the source order.
RECURSIVE PrintItemsReversed(_, _)
PrintItemsReversed(items, i) ==
    IF i > Len(items) THEN <<>>
    ELSE LET rest == PrintItemsReversed(items, i + 1) IN
         IF info(items[i]) # None
         THEN rest \o <<Line(info(items[i])[1], info(items[i])[2])>>
         ELSE rest

\* What the loop over file.items prints, from item i on.
RECURSIVE PrintItems(_, _)
PrintItems(items, i) ==
    IF i > Len(items) THEN <<>>
    ELSE LET rest == PrintItems(items, i + 1) IN
         IF info(items[i]) # None
         THEN <<Line(info(items[i])[1], info(items[i])[2])>> \o rest
         ELSE rest

\* ListOutput without the first println!.
ListOutputNoHeader(f) == PrintItems(f.items, 1)

\* The ListItems arm.
ListOutput(f) == <<Header>> \o PrintItems(f.items, 1)

\* ------------------------------------------------------------------------
\* Extraction
\* ------------------------------------------------------------------------

\* The syn type the arm of a command calls extract::<T> with, by the variant
\* of syn::Item that wraps it.
ItemType(cmd) == IF cmd = "Function" THEN "Fn" ELSE cmd

\* find_item of ItemFn without the comparison of the name.
find_item_FnAnyName(item, name) ==
    IF item.var = "Fn" THEN TRUE ELSE FALSE

\* Find::find_item of each implementation: TRUE for Some(node of the item).
find_item_Fn(item, name) ==
    IF item.var = "Fn"
    THEN IF item.node.sig.ident = name THEN TRUE ELSE FALSE
    ELSE FALSE

\* find_item of ItemMacro taking an invocation without identifier as a match.
find_item_MacroAnonymous(item, name) ==
    IF item.var = "Macro"
    THEN IF item.node.ident = None
         THEN TRUE
         ELSE IF item.node.ident = name THEN TRUE ELSE FALSE
    ELSE FALSE

find_item_Macro(item, name) ==
    IF item.var = "Macro"
    THEN IF item.node.ident = None
         THEN FALSE                   \* the ? returns None from find_item
         ELSE IF item.node.ident = name THEN TRUE ELSE FALSE
    ELSE FALSE

\* impl_traits!(T: Item::var)
find_item_impl(var, item, name) ==
    IF item.var = var
    THEN IF item.node.ident = name THEN TRUE ELSE FALSE
    ELSE FALSE

find_item(T, item, name) ==
    CASE T = "Fn" -> find_item_Fn(item, name)
      [] T = "Macro" -> find_item_Macro(item, name)
      [] OTHER -> find_item_impl(T, item, name)

\* find keeping the last match instead of returning at the first.
RECURSIVE findLastFrom(_, _, _, _)
findLastFrom(T, items, name, i) ==
    IF i > Len(items) THEN 0
    ELSE LET later == findLastFrom(T, items, name, i + 1) IN
         IF later # 0 THEN later
         ELSE IF find_item(T, items[i], name) THEN i ELSE 0

\* find with the ? of ItemMacro's find_item leaving the whole scan: None at
\* the first macro invocation without identifier.
RECURSIVE findStopAtAnonymous(_, _, _, _)
findStopAtAnonymous(T, items, name, i) ==
    IF i > Len(items) THEN 0
    ELSE IF T = "Macro" /\ items[i].var = "Macro" /\ items[i].node.ident = None THEN 0
    ELSE IF find_item(T, items[i], name) THEN i
    ELSE findStopAtAnonymous(T, items, name, i + 1)

\* Find::find from item i on: the position of the item whose node is returned,
\* 0 for None.
RECURSIVE findFrom(_, _, _, _)
findFrom(T, items, name, i) ==
    IF i > Len(items) THEN 0
    ELSE IF find_item(T, items[i], name) THEN i
    ELSE findFrom(T, items, name, i + 1)

find(T, f, name) == findFrom(T, f.items, name, 1)

\* Unparse::as_item: the node wrapped in the variant of its type.
as_item(T, node) == [var |-> T, node |-> node]

\* SyntheticFile keeping the shebang and the attributes of the parsed file.
SyntheticFileWithHeader(T, node) ==
    [shebang |-> file.shebang, attrs |-> file.attrs, items |-> <<as_item(T, node)>>]

\* The file Unparse::unparse hands to the formatter.
SyntheticFile(T, node) ==
    [shebang |-> None, attrs |-> <<>>, items |-> <<as_item(T, node)>>]

\* The keyword(s) a rendered item starts with.
Keyword(var) ==
    CASE var = "Fn" -> "fn"
      [] var = "Struct" -> "struct"
      [] var = "Enum" -> "enum"
      [] var = "Trait" -> "trait"
      [] var = "Const" -> "const"
      [] var = "ExternCrate" -> "extern crate"
      [] var = "Static" -> "static"
      [] var = "Type" -> "type"
      [] var = "Union" -> "union"
      [] var = "Macro" -> "macro_rules!"
      [] OTHER -> "item"

IdentOf(item) == IF item.var = "Fn" THEN item.node.sig.ident ELSE item.node.ident

RenderItem(item) ==
    [what |-> "item", text |-> Keyword(item.var), ident |-> IdentOf(item),
     body |-> item.node.body]

\* prettyplease::unparse: the shebang, the inner attributes, then the items.
unparse(f) ==
    (IF f.shebang = None THEN <<>> ELSE <<Text(f.shebang)>>)
    \o [i \in 1..Len(f.attrs) |-> Text(f.attrs[i])]
    \o [i \in 1..Len(f.items) |-> RenderItem(f.items[i])]

\* ------------------------------------------------------------------------
\* The program
\* ------------------------------------------------------------------------

\* The words tried as sub-command: the names and aliases clap knows, and the
\* kind labels of the listing.
Words ==
    {SubcommandName(c) : c \in Commands} \cup ({Alias(c) : c \in Commands} \ {None})
    \cup KindLabels

Init ==
    /\ argv \in [word : Words, name : Names, help : BOOLEAN]
    /\ opt = None
    /\ file = NoFile
    /\ found = 0
    /\ synth = None
    /\ stdout = <<>>
    /\ stderr = <<>>
    /\ pc = "args"

\* The messages of the two panics.
ErrUnwrap == Text("panicked: called Result::unwrap() on an Err value")

NoneUnwrap == Text("panicked: called Option::unwrap() on a None value")

\* Opt::parse(): the word names a sub-command.
ParseArgs ==
    /\ pc = "args"
    /\ ~argv.help
    /\ \E cmd \in Subcommands(argv.word) :
         opt' = [cmd |-> cmd, name |-> argv.name]
    /\ pc' = "read"
    /\ UNCHANGED <<argv, file, found, synth, stdout, stderr>>

\* Opt::parse(): --help after a sub-command prints its help and exits.
ParseHelp ==
    /\ pc = "args"
    /\ argv.help
    /\ \E cmd \in Subcommands(argv.word) :
         stdout' = <<[what |-> "help", name |-> SubcommandName(cmd), about |-> About(cmd)]>>
    /\ pc' = "help"
    /\ UNCHANGED <<argv, opt, file, found, synth, stderr>>

\* Opt::parse(): no sub-command of that name; clap reports it and exits.
ParseUsage ==
    /\ pc = "args"
    /\ Subcommands(argv.word) = {}
    /\ stderr' = <<Text("error: unrecognized subcommand")>>
    /\ pc' = "usage"
    /\ UNCHANGED <<argv, opt, file, found, synth, stdout>>

\* fs::read_to_string(..).unwrap() and syn::parse_file(..).unwrap() succeed.
ReadFile ==
    /\ pc = "read"
    /\ \E f \in Files : file' = f
    /\ pc' = "match"
    /\ UNCHANGED <<argv, opt, found, synth, stdout, stderr>>

\* The file cannot be read or does not parse: unwrap panics.
ReadFail ==
    /\ pc = "read"
    /\ stderr' = <<ErrUnwrap>>
    /\ pc' = "panicked"
    /\ UNCHANGED <<argv, opt, file, found, synth, stdout>>

\* ExtractItem::ListItems arm.
ListItems ==
    /\ pc = "match"
    /\ opt.cmd = "ListItems"
    /\ stdout' = stdout \o ListOutput(file)
    /\ pc' = "done"
    /\ UNCHANGED <<argv, opt, file, found, synth, stderr>>

\* extract printing the note of the command with the item.
extractNoted(T) ==
    LET at == find(T, file, opt.name)
    IN /\ found' = at
       /\ IF at = 0
          THEN /\ stderr' = <<NoneUnwrap>>
               /\ pc' = "panicked"
               /\ UNCHANGED <<synth, stdout>>
          ELSE /\ synth' = SyntheticFile(T, file.items[at].node)
               /\ stdout' = stdout \o unparse(synth')
               /\ pc' = "done"
               /\ stderr' = IF About(opt.cmd) = None THEN stderr
                             ELSE stderr \o <<Text(About(opt.cmd))>>
       /\ UNCHANGED <<argv, opt, file>>

\* extract::<T>(&file, &name), printed by the arm that calls it: find, unwrap,
\* clone, unparse, print!.
extract(T) ==
    LET at == find(T, file, opt.name)
    IN /\ found' = at
       /\ IF at = 0
          THEN /\ stderr' = <<NoneUnwrap>>
               /\ pc' = "panicked"
               /\ UNCHANGED <<synth, stdout>>
          ELSE /\ synth' = SyntheticFile(T, file.items[at].node)
               /\ stdout' = stdout \o unparse(synth')
               /\ pc' = "done"
               /\ UNCHANGED stderr
       /\ UNCHANGED <<argv, opt, file>>

\* The arms of the match on opt.item.
Function ==
    /\ pc = "match"
    /\ opt.cmd = "Function"
    /\ extract("Fn")

Struct ==
    /\ pc = "match"
    /\ opt.cmd = "Struct"
    /\ extract("Struct")

Enum ==
    /\ pc = "match"
    /\ opt.cmd = "Enum"
    /\ extract("Enum")

Trait ==
    /\ pc = "match"
    /\ opt.cmd = "Trait"
    /\ extract("Trait")

Const ==
    /\ pc = "match"
    /\ opt.cmd = "Const"
    /\ extract("Const")

ExternCrate ==
    /\ pc = "match"
    /\ opt.cmd = "ExternCrate"
    /\ extract("ExternCrate")

Static ==
    /\ pc = "match"
    /\ opt.cmd = "Static"
    /\ extract("Static")

Type ==
    /\ pc = "match"
    /\ opt.cmd = "Type"
    /\ extract("Type")

Union ==
    /\ pc = "match"
    /\ opt.cmd = "Union"
    /\ extract("Union")

Macro ==
    /\ pc = "match"
    /\ opt.cmd = "Macro"
    /\ extract("Macro")

Next ==
    \/ ParseArgs
    \/ ParseHelp
    \/ ParseUsage
    \/ ReadFile
    \/ ReadFail
    \/ ListItems
    \/ Function
    \/ Struct
    \/ Enum
    \/ Trait
    \/ Const
    \/ ExternCrate
    \/ Static
    \/ Type
    \/ Union
    \/ Macro

Spec == Init /\ [][Next]_vars

\* ------------------------------------------------------------------------
\* Vocabulary of the properties
\* ------------------------------------------------------------------------

\* The kind label of the declarations a command asks for.
KindLabel(cmd) ==
    CASE cmd = "Function" -> "fn"
      [] cmd = "Struct" -> "struct"
      [] cmd = "Enum" -> "enum"
      [] cmd = "Trait" -> "trait"
      [] cmd = "Const" -> "const"
      [] cmd = "ExternCrate" -> "extern crate"
      [] cmd = "Static" -> "static"
      [] cmd = "Type" -> "type"
      [] cmd = "Union" -> "union"
      [] cmd = "Macro" -> "macro"

\* A declaration with a name: any variant but Other and the anonymous macro.
Classifiable(item) ==
    \/ item.var \in NamedVariants
    \/ item.var = "Macro" /\ IdentOf(item) # None

\* The positions of the classifiable declarations, and the catalog they make.
ClassifiablePositions(f) == {i \in 1..Len(f.items) : Classifiable(f.items[i])}

Catalog(f) == {info(f.items[i]) : i \in ClassifiablePositions(f)}

\* The positions of the declarations of the kind and name of the request.
Matches(f, cmd, name) ==
    {i \in 1..Len(f.items) :
        f.items[i].var = ItemType(cmd) /\ IdentOf(f.items[i]) = name}

Least(S) == CHOOSE i \in S : \A j \in S : i <= j

\* An extraction arm has run: it printed an item or died on the unwrap of None.
Extracted == pc = "done" /\ opt.cmd \in ExtractCommands

NotFound == pc = "panicked" /\ stderr = <<NoneUnwrap>>

ExtractionOver == Extracted \/ NotFound

Listed == pc = "done" /\ opt.cmd = "ListItems"

\* The entry lines of the output, in order, as (kind, name).
IsEntry(x) == x.what = "entry"

EntryLines == SelectSeq(stdout, IsEntry)

Entries == [i \in 1..Len(EntryLines) |-> <<EntryLines[i].kind, EntryLines[i].name>>]

\* The classifiable declarations of a list from position i on, classified.
RECURSIVE Classified(_, _)
Classified(items, i) ==
    IF i > Len(items) THEN <<>>
    ELSE (IF Classifiable(items[i]) THEN <<info(items[i])>> ELSE <<>>)
         \o Classified(items, i + 1)

\* ------------------------------------------------------------------------
\* Properties
\* ------------------------------------------------------------------------

\* C1: among several declarations of the requested kind and name, extraction
\* returns the first in source order: the node found is the one at the least
\* position whose variant is the requested kind and whose identifier is the
\* requested name, and it is the node handed on to be rendered.
C1_FirstMatchWins ==
    Extracted =>
        /\ Matches(file, opt.cmd, opt.name) # {}
        /\ found = Least(Matches(file, opt.cmd, opt.name))
        /\ synth.items[1].node = file.items[found].node

C1_Witness ==
    /\ Extracted
    /\ Cardinality(Matches(file, opt.cmd, opt.name)) >= 2
    /\ found = 1

\* C2: a request whose (kind, name) is not in the catalog of the file ends
\* not-found with nothing printed, the same whether the name is there under
\* another kind or not there at all.
C2_AbsentIsNotFound ==
    (ExtractionOver /\ <<KindLabel(opt.cmd), opt.name>> \notin Catalog(file)) =>
        /\ NotFound
        /\ found = 0
        /\ stdout = <<>>

C2_Witness ==
    /\ NotFound
    /\ stdout = <<>>
    /\ <<KindLabel(opt.cmd), opt.name>> \notin Catalog(file)
    /\ \E e \in Catalog(file) : e[2] = opt.name /\ e[1] # KindLabel(opt.cmd)

\* C3: the entries of a listing are the declarations of the file, filtered to
\* the classifiable ones and classified: in source order, one entry for each
\* occurrence, none for Other and anonymous macros.
C3_ListingIsCatalog ==
    Listed =>
        /\ Entries = Classified(file.items, 1)
        /\ Len(Entries) = Cardinality(ClassifiablePositions(file))

C3_Witness ==
    /\ Listed
    /\ Len(file.items) >= 2
    /\ ~Classifiable(file.items[1])
    /\ Classifiable(file.items[2])
    /\ Len(Entries) = 1

\* C4: listing and extraction agree: a request for a (kind, name) of the
\* catalog is never not-found, and the declaration rendered is classified as
\* that kind and that name.
C4_CatalogEntriesExtract ==
    (ExtractionOver /\ <<KindLabel(opt.cmd), opt.name>> \in Catalog(file)) =>
        /\ Extracted
        /\ info(synth.items[1]) = <<KindLabel(opt.cmd), opt.name>>

C4_Witness ==
    /\ Extracted
    /\ <<KindLabel(opt.cmd), opt.name>> \in Catalog(file)
    /\ Len(file.items) >= 2
    /\ found = 2
    /\ info(file.items[1])[1] = KindLabel(opt.cmd)

\* The caveat of the macro kind, as text or as a warning on either stream.
Caveat == "Note: output might be mangled"

Warns(out) ==
    \E i \in 1..Len(out) :
        \/ out[i].what = "warning"
        \/ out[i].what = "text" /\ out[i].text = Caveat

\* C5 as stated: every successful extraction of kind macro carries the caveat
\* as a warning with its output.
C5_MacroOutputWarns ==
    (Extracted /\ opt.cmd = "Macro") => (Warns(stdout) \/ Warns(stderr))

\* C5 amended: a successful extraction of kind macro prints the rendered
\* declaration and nothing else, with no warning on either stream; the caveat
\* is shown in the help of the macro sub-command.
C5_CaveatOnlyInHelp ==
    /\ (Extracted /\ opt.cmd = "Macro") =>
          /\ stdout = <<RenderItem(file.items[found])>>
          /\ stderr = <<>>
    /\ (pc = "help" /\ argv.word = "macro") =>
          /\ Len(stdout) = 1
          /\ stdout[1].about = Caveat

C5_Witness ==
    /\ Extracted
    /\ opt.cmd = "Macro"
    /\ Len(stdout) = 1
    /\ stdout[1].text = "macro_rules!"

\* C6 as stated: every kind label the listing prints is accepted as the kind
\* of an extraction request and selects the variant with that label.
C6_LabelsAccepted ==
    (argv.word \in KindLabels /\ ~argv.help /\ pc # "args") =>
        /\ pc # "usage"
        /\ KindLabel(opt.cmd) = argv.word

\* C6 amended: the kind labels other than "fn" and "extern crate" are accepted
\* and select the declarations of the variant with that label; "fn" and
\* "extern crate" are refused as unknown sub-commands, the two kinds being
\* asked for as "function" (or "f") and "extern-crate".
C6_LabelsAcceptedButTwo ==
    /\ (argv.word \in KindLabels \ {"fn", "extern crate"} /\ ~argv.help /\ pc # "args") =>
          /\ pc # "usage"
          /\ KindLabel(opt.cmd) = argv.word
          /\ Extracted => info(file.items[found])[1] = argv.word
    /\ (argv.word \in {"fn", "extern crate"} /\ pc # "args") => pc = "usage"
    /\ (argv.word \in {"function", "f"} /\ Extracted) => info(file.items[found])[1] = "fn"
    /\ (argv.word = "extern-crate" /\ Extracted) =>
          info(file.items[found])[1] = "extern crate"

C6_Witness ==
    /\ Extracted
    /\ argv.word = "union"
    /\ file.items[found].var = "Union"
    /\ Len(file.items) >= 2

\* C7 as stated: the output of a listing is the entry lines and nothing else,
\* one for each classifiable declaration.
C7_OnlyEntryLines ==
    Listed =>
        /\ Len(stdout) = Cardinality(ClassifiablePositions(file))
        /\ \A i \in 1..Len(stdout) : IsEntry(stdout[i])

\* C7 amended: the output of a listing is the line "Listing items:" and then
\* one line for each catalog entry, made of the kind label right-aligned in 12
\* columns and the identifier; for fn add followed by struct Point, the two
\* entries fn add and struct Point.
C7_HeaderThenEntryLines ==
    Listed =>
        /\ Len(stdout) = 1 + Cardinality(ClassifiablePositions(file))
        /\ stdout[1] = Text("Listing items:")
        /\ \A i \in 2..Len(stdout) :
              /\ IsEntry(stdout[i])
              /\ stdout[i].kind \in KindLabels
              /\ stdout[i].name \in Names
              /\ stdout[i].pad + Len(stdout[i].kind) = 12
        /\ (file.items = <<Item("Fn", "add", 1), Item("Struct", "Point", 2)>>) =>
              Entries = << <<"fn", "add">>, <<"struct", "Point">> >>

C7_Witness ==
    /\ Listed
    /\ file.items = <<Item("Fn", "add", 1), Item("Struct", "Point", 2)>>
    /\ Len(stdout) = 3

\* C8: the classifier gives every named variant one label, gives no two
\* variants the same label, and gives None to Other and to anonymous macros
\* only.
C8_LabelsTotalInjective ==
    \A i, j \in 1..Len(file.items) :
        LET a == file.items[i]
            b == file.items[j]
        IN /\ Classifiable(a) =>
                /\ info(a) # None
                /\ info(a)[1] \in KindLabels
                /\ info(a)[2] = IdentOf(a)
           /\ ~Classifiable(a) => info(a) = None
           /\ (Classifiable(a) /\ Classifiable(b) /\ info(a)[1] = info(b)[1]) =>
                a.var = b.var
           /\ (Classifiable(a) /\ Classifiable(b) /\ a.var = b.var) =>
                info(a)[1] = info(b)[1]

C8_Witness ==
    /\ Listed
    /\ Len(file.items) >= 2
    /\ file.items[1].var = "Union"
    /\ file.items[2].var = "Struct"
    /\ Entries[1][1] # Entries[2][1]

\* C9: the file handed to the formatter has no shebang, no attributes and one
\* item, equal to the declaration found; extraction leaves the parsed file as
\* it was; and what is printed is the rendering of that one declaration,
\* whatever else the file holds.
C9_SyntheticFileOfOneItem ==
    [][(pc = "match" /\ pc' = "done" /\ opt.cmd \in ExtractCommands) =>
          /\ file' = file
          /\ synth'.shebang = None
          /\ synth'.attrs = <<>>
          /\ Len(synth'.items) = 1
          /\ synth'.items[1] = file.items[found']
          /\ stdout' = <<RenderItem(file.items[found'])>>]_vars

C9_Witness ==
    /\ Extracted
    /\ file.shebang # None
    /\ Len(file.attrs) > 0
    /\ Len(file.items) >= 2
    /\ Len(synth.items) = 1

\* The positions of the anonymous macro invocations of a file.
Anonymous(f) == {i \in 1..Len(f.items) : f.items[i].var = "Macro" /\ IdentOf(f.items[i]) = None}

\* C10: an anonymous macro invocation does not end the scan for a named macro:
\* when a macro invocation of the requested name follows anonymous ones, the
\* extraction of kind macro returns the first invocation of that name.
C10_AnonymousMacroSkipped ==
    (/\ ExtractionOver
     /\ opt.cmd = "Macro"
     /\ \E i \in Matches(file, "Macro", opt.name) : \E j \in Anonymous(file) : j < i) =>
        /\ Extracted
        /\ found = Least(Matches(file, "Macro", opt.name))

C10_Witness ==
    /\ Extracted
    /\ opt.cmd = "Macro"
    /\ 1 \in Anonymous(file)
    /\ found = 2
====
